---- MODULE Spec2Model ----
(***************************************************************************)
(* Model of the agent wrappers of ndtands/agent_practices:                 *)
(*   - WeatherAgent and WeatherAgentExecutor (multiple_agents/weather_agent)*)
(*   - RouterAgent and its send_agent_message tool (multiple_agents/host_agent)*)
(*   - CurrencyAgent (langgraph/app/agent)                                 *)
(* The three are separate programs: program says which one a behaviour runs.*)
(* Python values whose type matters are tagged records [t |-> type, ...];  *)
(* a dict key that is not present holds Absent.                            *)
(***************************************************************************)
EXTENDS Integers, Sequences, FiniteSets, TLC

(* ---------- bounds ---------- *)
\* most framework events one astream_events run emits; for the host, most events the
\* routing agent emits in one run of the program
MaxEvents == 2
\* most user messages the chat interface submits
MaxUserMessages == 2
\* most calls of the send_agent_message tool in one run of the host
MaxToolCalls == 2

(* ---------- Python values ---------- *)
NoneV == [t |-> "NoneType"]
Absent == [t |-> "absent"]
Str(s) == [t |-> "str", v |-> s]
List(xs) == [t |-> "list", v |-> xs]

\* bool(x) of a str, a list or None
Truthy(x) ==
    CASE x.t = "str" -> x.v # ""
      [] x.t = "list" -> Len(x.v) > 0
      [] OTHER -> FALSE

\* d.get(k, default) of a dict modelled as a record whose missing keys hold Absent
Get(d, k, default) == IF d[k] = Absent THEN default ELSE d[k]

\* the text an f-string puts for a str or for None
Format(x) == IF x.t = "str" THEN x.v ELSE "None"

\* an exception instance and str(e)
Exc(cls, msg) == [cls |-> cls, msg |-> msg]
ExcStr(e) == e.msg
Exceptions == {Exc("RuntimeError", "boom"), Exc("TimeoutError", "")}

(* ---------- framework values the runnable can produce ---------- *)
TextPart(s) == [type |-> "text", text |-> s]
ImagePart == [type |-> "image_url", text |-> ""]

AIMessageChunk(c) == [cls |-> "AIMessageChunk", content |-> c]
ToolMessageChunk(c) == [cls |-> "ToolMessage", content |-> c]
StreamChunks ==
    {AIMessageChunk(Str("")), AIMessageChunk(Str("Sunny")),
     AIMessageChunk(List(<<>>)), AIMessageChunk(List(<<TextPart("Sunny")>>)),
     ToolMessageChunk(Str("72F"))}

\* events of astream_events(version='v1'): {'event': ..., 'data': {...}}
Event(name, data) == [event |-> name, data |-> data]
Data(name, chunk) == [name |-> name, chunk |-> chunk]
FrameworkEvents ==
    {Event("on_tool_start", Data(n, Absent)) : n \in {Absent, Str("get_forecast")}}
    \cup {Event("on_chat_model_stream", Data(Absent, c)) : c \in StreamChunks \cup {Absent}}
    \cup {Event("on_chain_end", Data(Absent, c)) : c \in {Absent, AIMessageChunk(Str("Sunny"))}}

Statuses == {"input_required", "completed", "error"}
ResponseFormat(status, message) == [cls |-> "ResponseFormat", status |-> status, message |-> message]
OtherStructured == [cls |-> "dict", status |-> "completed", message |-> "raw"]

AIMessage(c) == [cls |-> "AIMessage", content |-> c]
HumanMessage(c) == [cls |-> "HumanMessage", content |-> c]
MessageLists ==
    {<<>>,
     <<HumanMessage(Str("weather?"))>>,
     <<HumanMessage(Str("weather?")), AIMessage(Str("Sunny"))>>,
     <<AIMessage(Str(""))>>,
     <<AIMessage(List(<<TextPart("Sunny"), ImagePart, TextPart("72F")>>))>>,
     <<AIMessage(List(<<ImagePart>>))>>}

\* state.values of the checkpointed agent state
Values(sr, ms) == [t |-> "dict", structured_response |-> sr, messages |-> ms]
EmptyValues == Values(Absent, Absent)
StateValues ==
    {NoneV, EmptyValues}
    \cup {Values(ResponseFormat(s, m), List(<<AIMessage(Str(m))>>)) : s \in Statuses, m \in {"", "Sunny"}}
    \cup {Values(sr, List(ms)) : sr \in {Absent, OtherStructured}, ms \in MessageLists}

\* bool(state_values): a dict is falsy when it has no key
ValuesTruthy(sv) ==
    /\ sv.t = "dict"
    /\ \/ sv.structured_response # Absent
       \/ sv.messages # Absent

\* what agent_runnable.get_state(config) does: returns a state or raises
GetStateOutcomes ==
    {[raises |-> FALSE, values |-> sv, exc |-> Exc("", "")] : sv \in StateValues}
    \cup {[raises |-> TRUE, values |-> NoneV, exc |-> e] : e \in Exceptions}

(* ---------- WeatherAgent: pure methods ---------- *)
Envelope(complete, input, content) ==
    [is_task_complete |-> complete, require_user_input |-> input, content |-> content]

\* variant: the error envelope asks for input instead of completing the task
_format_error_response_input(message) == Envelope(FALSE, TRUE, Str(message))

_format_error_response(message) == Envelope(TRUE, FALSE, Str(message))

RECURSIVE JoinLines(_)
\* '\n'.join(parts)
JoinLines(parts) ==
    IF Len(parts) = 0 THEN ""
    ELSE IF Len(parts) = 1 THEN parts[1]
    ELSE parts[1] \o "\n" \o JoinLines(Tail(parts))

RECURSIVE TextPartsUnfiltered(_)
\* variant: the text of every part is taken, whatever its type
TextPartsUnfiltered(content) ==
    IF Len(content) = 0 THEN <<>>
    ELSE <<content[1].text>> \o TextPartsUnfiltered(Tail(content))

RECURSIVE TextParts(_)
\* [part['text'] for part in content if part.get('type') == 'text']
TextParts(content) ==
    IF Len(content) = 0 THEN <<>>
    ELSE IF content[1].type = "text"
         THEN <<content[1].text>> \o TextParts(Tail(content))
         ELSE TextParts(Tail(content))

UnexpectedFormat ==
    Envelope(FALSE, TRUE,
             Str("Unable to process request due to unexpected response format. Please try again."))

_fallback_to_message_content(state_values) ==
    LET messages == Get(state_values, "messages", List(<<>>)).v
        last == messages[Len(messages)]
    IN  IF Len(messages) > 0 /\ last.cls = "AIMessage"
        THEN IF last.content.t = "str" /\ last.content.v # ""
             THEN Envelope(TRUE, FALSE, last.content)
             ELSE IF last.content.t = "list" /\ Len(TextParts(last.content.v)) > 0
                  THEN Envelope(TRUE, FALSE, Str(JoinLines(TextParts(last.content.v))))
                  ELSE UnexpectedFormat
        ELSE UnexpectedFormat

\* variant: every status but 'completed' asks for input
StructuredEnvelopeErrorAsInput(sr) ==
    Envelope(sr.status = "completed", sr.status # "completed", Str(sr.message))

\* the envelope built from a ResponseFormat
StructuredEnvelope(sr) ==
    Envelope(sr.status = "completed", sr.status = "input_required", Str(sr.message))

_extract_response(outcome) ==
    IF outcome.raises
    THEN _format_error_response("Could not retrieve agent state")
    ELSE IF ~ValuesTruthy(outcome.values)
         THEN _format_error_response("Agent state is unavailable")
         ELSE LET structured_response == Get(outcome.values, "structured_response", NoneV)
              IN  IF structured_response # NoneV /\ structured_response.cls = "ResponseFormat"
                  THEN StructuredEnvelope(structured_response)
                  ELSE _fallback_to_message_content(outcome.values)

\* variant: the chunk of any event but on_tool_start is passed through
ChunkContentAnyEvent(chunk) ==
    IF chunk.event = "on_tool_start"
    THEN Str("Using tool: " \o Format(Get(chunk.data, "name", Str("a tool"))) \o "...")
    ELSE LET message_chunk == Get(chunk.data, "chunk", NoneV)
         IN  IF message_chunk # NoneV
                /\ message_chunk.cls = "AIMessageChunk"
                /\ Truthy(message_chunk.content)
             THEN message_chunk.content
             ELSE NoneV

\* the content _process_stream_chunk selects, NoneV when it selects none
ChunkContent(chunk) ==
    IF chunk.event = "on_tool_start"
    THEN Str("Using tool: " \o Format(Get(chunk.data, "name", Str("a tool"))) \o "...")
    ELSE IF chunk.event = "on_chat_model_stream"
         THEN LET message_chunk == Get(chunk.data, "chunk", NoneV)
              IN  IF message_chunk # NoneV
                     /\ message_chunk.cls = "AIMessageChunk"
                     /\ Truthy(message_chunk.content)
                  THEN message_chunk.content
                  ELSE NoneV
         ELSE NoneV

_process_stream_chunk(chunk) ==
    IF Truthy(ChunkContent(chunk))
    THEN Envelope(FALSE, FALSE, ChunkContent(chunk))
    ELSE NoneV

(* ---------- WeatherAgentExecutor: translation of one envelope ---------- *)
Task(id, contextId) == [t |-> "Task", id |-> id, contextId |-> contextId]
Message(text, contextId) == [t |-> "Message", text |-> text, contextId |-> contextId]

\* a2a.utils.new_task(message): a fresh task in the context of the message
new_task(message) ==
    Task("task-new", IF message.contextId = "" THEN "ctx-new" ELSE message.contextId)

new_agent_text_message(content, contextId, taskId) ==
    [role |-> "agent", text |-> content, contextId |-> contextId, taskId |-> taskId]

TaskArtifactUpdateEvent(tk, content) ==
    [kind |-> "artifact-update", append |-> FALSE, lastChunk |-> TRUE,
     contextId |-> tk.contextId, taskId |-> tk.id,
     artifact |-> [name |-> "current_result",
                   description |-> "Result of request to agent.",
                   text |-> content]]

TaskStatusUpdateEvent(tk, state, message, final) ==
    [kind |-> "status-update", state |-> state, message |-> message, final |-> final,
     contextId |-> tk.contextId, taskId |-> tk.id]

\* variant: the completed status is enqueued before the artifact
ExecuteEventsStatusFirst(tk, event) ==
    IF event.is_task_complete
    THEN <<TaskStatusUpdateEvent(tk, "completed", NoneV, TRUE),
           TaskArtifactUpdateEvent(tk, event.content)>>
    ELSE IF event.require_user_input
         THEN <<TaskStatusUpdateEvent(tk, "input_required",
                    new_agent_text_message(event.content, tk.contextId, tk.id), TRUE)>>
         ELSE <<TaskStatusUpdateEvent(tk, "working",
                    new_agent_text_message(event.content, tk.contextId, tk.id), FALSE)>>

\* the events the loop body of execute enqueues for one envelope of astream
ExecuteEvents(tk, event) ==
    IF event.is_task_complete
    THEN <<TaskArtifactUpdateEvent(tk, event.content),
           TaskStatusUpdateEvent(tk, "completed", NoneV, TRUE)>>
    ELSE IF event.require_user_input
         THEN <<TaskStatusUpdateEvent(tk, "input_required",
                    new_agent_text_message(event.content, tk.contextId, tk.id), TRUE)>>
         ELSE <<TaskStatusUpdateEvent(tk, "working",
                    new_agent_text_message(event.content, tk.contextId, tk.id), FALSE)>>

(* ---------- state ---------- *)
VARIABLES
    program,          \* which entry point runs: "weather_agent", "langgraph" or "host_agent"
    pc,               \* position of the running call
    caller,           \* the call in progress: "ainvoke", "astream", "execute", "stream" or "none"
    arg_tools,        \* the mcp_tools argument the constructor was called with
    context,          \* the RequestContext the running execute was called with
    mcp_tools,        \* WeatherAgent.mcp_tools
    memory,           \* WeatherAgent.memory: "unset" or "MemorySaver"
    agent_runnable,   \* WeatherAgent.agent_runnable: "unset" or "react_agent"
    executor,         \* "unset", or "created" once WeatherAgentExecutor.__init__ returned
    task,             \* the task of the running execute
    emitted,          \* framework events the runnable has emitted in this run
    yielded,          \* values the running generator has yielded
    returned,         \* the value ainvoke returned
    raised,           \* the exception that reached the caller, NoneV when none
    queue,            \* events enqueued on the EventQueue by execute
    remote_agent_addresses,    \* RouterAgent.remote_agent_addresses
    resolutions,               \* what get_agent_card did for each address, in order
    remote_agent_connections,  \* RouterAgent.remote_agent_connections: card name -> connection
    agents_info,               \* RouterAgent.agents_info
    uuids,                     \* number of uuid4() values drawn so far
    message_id,                \* config['configurable']['message_id'] of the user message in progress
    sent,                      \* requests handed to RemoteAgentConnections.send_message, in order
    last_call,                 \* the latest call of send_agent_message and its result
    content,                   \* get_response_from_agent: the text accumulated so far
    tool_content,              \* get_response_from_agent: the tool-call text accumulated so far
    host_events                \* number of events the routing agent has emitted so far

weatherVars == <<arg_tools, context, mcp_tools, memory, agent_runnable, executor, task, returned, queue>>
hostVars == <<remote_agent_addresses, resolutions, remote_agent_connections, agents_info,
              uuids, message_id, sent, last_call, content, tool_content, host_events>>
vars == <<program, pc, caller, emitted, yielded, raised, weatherVars, hostVars>>

Programs == {"weather_agent", "langgraph", "host_agent"}

ToolLists == {NoneV, List(<<>>), List(<<"get_forecast">>), List(<<"get_alerts", "get_forecast">>)}

Contexts ==
    {[message |-> m, current_task |-> tk] :
        m \in {NoneV, Message("weather?", ""), Message("weather?", "ctx-1")},
        tk \in {NoneV, Task("task-1", "ctx-1")}}

Init ==
    /\ program \in Programs
    /\ pc = "new"
    /\ caller = "none"
    /\ arg_tools = Absent
    /\ context = Absent
    /\ mcp_tools = NoneV
    /\ memory = "unset"
    /\ agent_runnable = "unset"
    /\ executor = "unset"
    /\ task = NoneV
    /\ emitted = <<>>
    /\ yielded = <<>>
    /\ returned = NoneV
    /\ raised = NoneV
    /\ queue = <<>>
    /\ remote_agent_addresses = <<>>
    /\ resolutions = <<>>
    /\ remote_agent_connections = <<>>
    /\ agents_info = NoneV
    /\ uuids = 0
    /\ message_id = Absent
    /\ sent = <<>>
    /\ last_call = NoneV
    /\ content = ""
    /\ tool_content = ""
    /\ host_events = 0

(* ---------- WeatherAgent / WeatherAgentExecutor ---------- *)
\* variant: only a missing list is rejected
NoToolsNoneOnly(tools) == tools = NoneV

\* the guard of WeatherAgent.__init__: `if not mcp_tools`
NoTools(tools) == ~Truthy(tools)

\* WeatherAgent(mcp_tools) or WeatherAgentExecutor(mcp_tools)
Construct(cls, tools) ==
    /\ program = "weather_agent"
    /\ pc = "new"
    /\ arg_tools' = tools
    /\ IF NoTools(tools)
       THEN /\ raised' = Exc("ValueError", "No MCP tools provided to WeatherAgent")
            /\ pc' = "failed"
            /\ UNCHANGED <<mcp_tools, memory, agent_runnable, executor>>
       ELSE /\ mcp_tools' = tools
            /\ memory' = "MemorySaver"
            /\ agent_runnable' = "react_agent"
            /\ executor' = IF cls = "WeatherAgentExecutor" THEN "created" ELSE "unset"
            /\ pc' = "ready"
            /\ UNCHANGED raised
    /\ UNCHANGED <<program, caller, context, task, emitted, yielded, returned, queue, hostVars>>

\* the outcome of `await agent_runnable.ainvoke(...)`: returns or raises
RunOutcomes ==
    {[raises |-> FALSE, exc |-> Exc("", "")]} \cup {[raises |-> TRUE, exc |-> e] : e \in Exceptions}

\* what ainvoke returns for an outcome of the runnable and of get_state
AinvokeResult(run, st) ==
    IF run.raises
    THEN _format_error_response("Error processing query: " \o ExcStr(run.exc))
    ELSE _extract_response(st)

Ainvoke(run, st) ==
    /\ program = "weather_agent"
    /\ pc = "ready"
    /\ caller' = "ainvoke"
    /\ returned' = AinvokeResult(run, st)
    /\ emitted' = <<[run |-> run, state |-> st]>>
    /\ pc' = "done"
    /\ UNCHANGED <<program, arg_tools, context, mcp_tools, memory, agent_runnable, executor, task, yielded, raised, queue, hostVars>>

\* a direct consumer starts iterating astream (test_agent.main_with_stream)
AstreamStart ==
    /\ program = "weather_agent"
    /\ pc = "ready"
    /\ caller' = "astream"
    /\ pc' = "streaming"
    /\ UNCHANGED <<program, emitted, yielded, raised, weatherVars, hostVars>>

\* variant: a new task is created and enqueued even when the request has a current task
ExecuteStartAlwaysNewTask(ctx) ==
    /\ program = "weather_agent"
    /\ pc = "ready"
    /\ executor = "created"
    /\ caller' = "execute"
    /\ context' = ctx
    /\ IF ctx.message = NoneV
       THEN /\ raised' = Exc("Exception", "No message provided")
            /\ pc' = "raised"
            /\ UNCHANGED <<task, queue>>
       ELSE /\ task' = new_task(ctx.message)
            /\ queue' = Append(queue, new_task(ctx.message))
            /\ pc' = "streaming"
            /\ UNCHANGED raised
    /\ UNCHANGED <<program, arg_tools, mcp_tools, memory, agent_runnable, executor, emitted,
                   yielded, returned, hostVars>>

\* WeatherAgentExecutor.execute up to its first iteration of astream
ExecuteStart(ctx) ==
    /\ program = "weather_agent"
    /\ pc = "ready"
    /\ executor = "created"
    /\ caller' = "execute"
    /\ context' = ctx
    /\ IF ctx.message = NoneV
       THEN /\ raised' = Exc("Exception", "No message provided")
            /\ pc' = "raised"
            /\ UNCHANGED <<task, queue>>
       ELSE /\ IF ctx.current_task = NoneV
               THEN /\ task' = new_task(ctx.message)
                    /\ queue' = Append(queue, new_task(ctx.message))
               ELSE /\ task' = ctx.current_task
                    /\ UNCHANGED queue
            /\ pc' = "streaming"
            /\ UNCHANGED raised
    /\ UNCHANGED <<program, arg_tools, mcp_tools, memory, agent_runnable, executor, emitted, yielded, returned, hostVars>>

\* astream yields envelope ev; when execute is the consumer its loop body runs
Yield(ev) ==
    /\ yielded' = Append(yielded, ev)
    /\ queue' = IF caller = "execute" THEN queue \o ExecuteEvents(task, ev) ELSE queue

\* the runnable emits one framework event; astream filters it
StreamEvent(chunk) ==
    /\ program = "weather_agent"
    /\ pc = "streaming"
    /\ Len(emitted) < MaxEvents
    /\ emitted' = Append(emitted, chunk)
    /\ IF _process_stream_chunk(chunk) # NoneV
       THEN Yield(_process_stream_chunk(chunk))
       ELSE UNCHANGED <<yielded, queue>>
    /\ UNCHANGED <<program, pc, caller, arg_tools, context, mcp_tools, memory, agent_runnable, executor, task, returned, raised, hostVars>>

\* variant: the handler only logs the error, astream ends without an envelope
StreamRaiseSilent(e) ==
    /\ program = "weather_agent"
    /\ pc = "streaming"
    /\ emitted' = Append(emitted, [event |-> "raise", data |-> e])
    /\ pc' = "done"
    /\ UNCHANGED <<program, caller, yielded, raised, weatherVars, hostVars>>

\* variant: the handler sits inside the loop, so the stream goes on after an error
StreamRaiseContinues(e) ==
    /\ program = "weather_agent"
    /\ pc = "streaming"
    /\ Len(emitted) < MaxEvents
    /\ emitted' = Append(emitted, [event |-> "raise", data |-> e])
    /\ Yield(_format_error_response("Streaming error: " \o ExcStr(e)))
    /\ UNCHANGED <<program, pc, caller, arg_tools, context, mcp_tools, memory, agent_runnable, executor,
                   task, returned, raised, hostVars>>

\* astream_events raises: the handler of astream yields the error envelope, then astream ends
StreamRaise(e) ==
    /\ program = "weather_agent"
    /\ pc = "streaming"
    /\ emitted' = Append(emitted, [event |-> "raise", data |-> e])
    /\ Yield(_format_error_response("Streaming error: " \o ExcStr(e)))
    /\ pc' = "done"
    /\ UNCHANGED <<program, caller, arg_tools, context, mcp_tools, memory, agent_runnable, executor, task, returned, raised, hostVars>>

\* astream_events is exhausted: astream yields the extracted response, then ends
StreamEnd(st) ==
    /\ program = "weather_agent"
    /\ pc = "streaming"
    /\ emitted' = Append(emitted, [event |-> "end", data |-> st])
    /\ Yield(_extract_response(st))
    /\ pc' = "done"
    /\ UNCHANGED <<program, caller, arg_tools, context, mcp_tools, memory, agent_runnable, executor, task, returned, raised, hostVars>>

WeatherNext ==
    \/ \E cls \in {"WeatherAgent", "WeatherAgentExecutor"}, tools \in ToolLists : Construct(cls, tools)
    \/ \E run \in RunOutcomes, st \in GetStateOutcomes : Ainvoke(run, st)
    \/ AstreamStart
    \/ \E ctx \in Contexts : ExecuteStart(ctx)
    \/ \E chunk \in FrameworkEvents : StreamEvent(chunk)
    \/ \E e \in Exceptions : StreamRaise(e)
    \/ \E st \in GetStateOutcomes : StreamEnd(st)

(* ---------- CurrencyAgent (langgraph/app/agent) ---------- *)
\* the last message of one item of graph.stream(stream_mode='values')
GraphMessage(cls, tool_calls) == [cls |-> cls, tool_calls |-> tool_calls]
GraphMessages ==
    {GraphMessage("HumanMessage", <<>>),
     GraphMessage("AIMessage", <<>>),
     GraphMessage("AIMessage", <<"get_exchange_rate">>),
     GraphMessage("ToolMessage", <<>>)}

\* the envelope stream yields for one item, NoneV when it yields none
StreamItemEnvelope(message) ==
    IF message.cls = "AIMessage" /\ Len(message.tool_calls) > 0
    THEN Envelope(FALSE, FALSE, Str("Looking up the exchange rates..."))
    ELSE IF message.cls = "ToolMessage"
         THEN Envelope(FALSE, FALSE, Str("Processing the exchange rates.."))
         ELSE NoneV

UnableToProcess ==
    Envelope(FALSE, TRUE,
             Str("We are unable to process your request at the moment. Please try again."))

\* current_state.values of the currency graph: always a dict
GraphStateValues ==
    {EmptyValues}
    \cup {Values(ResponseFormat(s, m), Absent) : s \in Statuses, m \in {"", "1 USD = 0.9 EUR"}}
    \cup {Values(OtherStructured, Absent)}

\* variant: status 'error' sets neither flag, as in WeatherAgent
get_agent_response_error_unmapped(values) ==
    LET structured_response == Get(values, "structured_response", NoneV)
    IN  IF structured_response # NoneV /\ structured_response.cls = "ResponseFormat"
        THEN Envelope(structured_response.status = "completed",
                      structured_response.status = "input_required",
                      Str(structured_response.message))
        ELSE UnableToProcess

\* variant: the fallback envelope has no require_user_input
get_agent_response_two_fields(values) ==
    LET structured_response == Get(values, "structured_response", NoneV)
    IN  IF structured_response # NoneV /\ structured_response.cls = "ResponseFormat"
        THEN Envelope(structured_response.status = "completed",
                      structured_response.status # "completed",
                      Str(structured_response.message))
        ELSE [is_task_complete |-> FALSE, content |-> UnableToProcess.content]

get_agent_response(values) ==
    LET structured_response == Get(values, "structured_response", NoneV)
    IN  IF structured_response # NoneV /\ structured_response.cls = "ResponseFormat"
        THEN IF structured_response.status = "input_required"
             THEN Envelope(FALSE, TRUE, Str(structured_response.message))
             ELSE IF structured_response.status = "error"
                  THEN Envelope(FALSE, TRUE, Str(structured_response.message))
                  ELSE IF structured_response.status = "completed"
                       THEN Envelope(TRUE, FALSE, Str(structured_response.message))
                       ELSE UnableToProcess
        ELSE UnableToProcess

\* a caller starts iterating CurrencyAgent.stream
CurrencyStreamStart ==
    /\ program = "langgraph"
    /\ pc = "new"
    /\ caller' = "stream"
    /\ pc' = "streaming"
    /\ UNCHANGED <<program, emitted, yielded, raised, weatherVars, hostVars>>

\* graph.stream produces one item
CurrencyStreamItem(message) ==
    /\ program = "langgraph"
    /\ pc = "streaming"
    /\ Len(emitted) < MaxEvents
    /\ emitted' = Append(emitted, message)
    /\ yielded' = IF StreamItemEnvelope(message) # NoneV
                  THEN Append(yielded, StreamItemEnvelope(message))
                  ELSE yielded
    /\ UNCHANGED <<program, pc, caller, raised, weatherVars, hostVars>>

\* graph.stream or get_state raises: stream has no handler, the caller gets the exception
CurrencyStreamRaise(e) ==
    /\ program = "langgraph"
    /\ pc = "streaming"
    /\ raised' = e
    /\ pc' = "raised"
    /\ UNCHANGED <<program, caller, emitted, yielded, weatherVars, hostVars>>

\* graph.stream is exhausted: stream yields get_agent_response, then ends
CurrencyStreamEnd(values) ==
    /\ program = "langgraph"
    /\ pc = "streaming"
    /\ emitted' = Append(emitted, values)
    /\ yielded' = Append(yielded, get_agent_response(values))
    /\ pc' = "done"
    /\ UNCHANGED <<program, caller, raised, weatherVars, hostVars>>

CurrencyNext ==
    \/ CurrencyStreamStart
    \/ \E message \in GraphMessages : CurrencyStreamItem(message)
    \/ \E e \in Exceptions : CurrencyStreamRaise(e)
    \/ \E values \in GraphStateValues : CurrencyStreamEnd(values)

(* ---------- RouterAgent (multiple_agents/host_agent) ---------- *)
\* the addresses the host program constructs its RouterAgent with
MainAddresses == <<"http://localhost:10002", "http://localhost:10001">>

AgentCard(name, description) == [name |-> name, description |-> description]
\* what `await card_resolver.get_agent_card()` does for one address
ResolveOutcomes ==
    {[ok |-> TRUE, card |-> AgentCard("Weather Agent", "forecasts"), exc |-> ""],
     [ok |-> TRUE, card |-> AgentCard("Airbnb Agent", "rooms"), exc |-> ""],
     [ok |-> FALSE, card |-> AgentCard("", ""), exc |-> "httpx.ConnectError"],
     [ok |-> FALSE, card |-> AgentCard("", ""), exc |-> "ValueError"]}

RemoteAgentConnections(agent_card, agent_url) == [agent_card |-> agent_card, agent_url |-> agent_url]

\* d[k] = v on a dict modelled as a function
DictSet(d, k, v) == [x \in DOMAIN d \cup {k} |-> IF x = k THEN v ELSE d[x]]

\* position of the card named name in the insertion-ordered dict cards, 0 when absent
RECURSIVE IndexOfName(_, _, _)
IndexOfName(cards, name, i) ==
    IF i > Len(cards) THEN 0
    ELSE IF cards[i].name = name THEN i
    ELSE IndexOfName(cards, name, i + 1)

\* cards[card.name] = card on the insertion-ordered dict cards
CardsSet(cards, card) ==
    IF IndexOfName(cards, card.name, 1) = 0
    THEN Append(cards, card)
    ELSE [cards EXCEPT ![IndexOfName(cards, card.name, 1)] = card]

\* variant: a name that is already registered keeps its first connection
ResolveStepFirstWins(st, address, outcome) ==
    IF outcome.ok /\ outcome.card.name \notin DOMAIN st.connections
    THEN [connections |-> DictSet(st.connections, outcome.card.name,
                                  RemoteAgentConnections(outcome.card, address)),
          cards |-> CardsSet(st.cards, outcome.card)]
    ELSE st

\* one iteration of the loop over the addresses: try, then both except clauses
ResolveStep(st, address, outcome) ==
    IF outcome.ok
    THEN [connections |-> DictSet(st.connections, outcome.card.name,
                                  RemoteAgentConnections(outcome.card, address)),
          cards |-> CardsSet(st.cards, outcome.card)]
    ELSE st

\* the loop of _async_init_components over addresses i..Len(addresses)
RECURSIVE ResolveAll(_, _, _, _)
ResolveAll(st, addresses, outcomes, i) ==
    IF i > Len(addresses) THEN st
    ELSE ResolveAll(ResolveStep(st, addresses[i], outcomes[i]), addresses, outcomes, i + 1)

\* json.dumps({'name': ..., 'description': ...})
JsonDumps(card) ==
    "{\"name\": \"" \o card.name \o "\", \"description\": \"" \o card.description \o "\"}"

RECURSIVE list_remote_agents(_)
\* the dumped details of the cards, in dict order
list_remote_agents(cards) ==
    IF Len(cards) = 0 THEN <<>>
    ELSE <<JsonDumps(cards[1])>> \o list_remote_agents(Tail(cards))

\* RouterAgent(remote_agent_addresses)
RouterAgentInit(addresses) ==
    /\ program = "host_agent"
    /\ pc = "new"
    /\ remote_agent_addresses' = addresses
    /\ pc' = "constructed"
    /\ UNCHANGED <<program, caller, emitted, yielded, raised, weatherVars,
                   resolutions, remote_agent_connections, agents_info, uuids, message_id,
                   sent, last_call, content, tool_content, host_events>>

\* RouterAgent.initialize: _async_init_components, then the react agent is created
_async_init_components(outcomes) ==
    /\ program = "host_agent"
    /\ pc = "constructed"
    /\ LET st == ResolveAll([connections |-> remote_agent_connections, cards |-> <<>>],
                            remote_agent_addresses, outcomes, 1)
       IN  /\ remote_agent_connections' = st.connections
           /\ agents_info' = Str(JoinLines(list_remote_agents(st.cards)))
    /\ resolutions' = outcomes
    /\ pc' = "ready"
    /\ UNCHANGED <<program, caller, emitted, yielded, raised, weatherVars,
                   remote_agent_addresses, uuids, message_id, sent, last_call,
                   content, tool_content, host_events>>

(* ---------- send_agent_message tool ---------- *)
\* uuid4().hex: the n-th value drawn differs from every earlier one
Uuid4Hex(n) == Str("uuid-" \o ToString(n))

AgentNames == {"Weather Agent", "Airbnb Agent", "Hotel Agent"}

SendMessageRequest(mid, text) ==
    [id |-> mid,
     params |-> [message |-> [role |-> "user",
                              parts |-> <<[type |-> "text", text |-> text]>>,
                              messageId |-> mid]]]

\* parts of an artifact as model_dump gives them; a part that is not a text part has no 'text'
Part(text) == [text |-> text]
Artifact(parts) == [parts |-> parts]
ArtifactLists ==
    {<<>>,
     <<Artifact(<<Part(Str("Sunny")), Part(Str("72F"))>>)>>,
     <<Artifact(<<Part(Str("draft"))>>), Artifact(<<Part(Str("72F")), Part(Absent), Part(Str("Sunny"))>>)>>,
     <<Artifact(<<>>)>>}

\* what `await client.send_message(...)` does: raises, or returns a response whose root is
\* an error response, or a success response whose result is a Message or a Task
SendResponse(kind, exc, artifacts) == [kind |-> kind, exc |-> exc, artifacts |-> artifacts]
SendOutcomes ==
    {SendResponse("raise", e, NoneV) : e \in Exceptions}
    \cup {SendResponse("error_response", Exc("", ""), NoneV),
          SendResponse("message", Exc("", ""), NoneV),
          SendResponse("task", Exc("", ""), NoneV)}
    \cup {SendResponse("task", Exc("", ""), List(a)) : a \in ArtifactLists}

\* the exception the body of the try raises for a response, NoneV when it raises none
DecodeError(response) ==
    IF response.kind = "raise" THEN response.exc
    ELSE IF response.kind = "error_response"
         THEN Exc("AttributeError", "'JSONRPCErrorResponse' object has no attribute 'result'")
    ELSE IF response.kind = "message" THEN Exc("KeyError", "'artifacts'")
    ELSE IF response.artifacts = NoneV
         THEN Exc("TypeError", "'NoneType' object is not subscriptable")
    ELSE IF Len(response.artifacts.v) = 0 THEN Exc("IndexError", "list index out of range")
    ELSE NoneV

RECURSIVE PartTexts(_)
\* [part.get('text') for part in parts]
PartTexts(parts) ==
    IF Len(parts) = 0 THEN <<>>
    ELSE <<Get(parts[1], "text", NoneV)>> \o PartTexts(Tail(parts))

ErrorDict(message) == [t |-> "dict", error |-> message]
Returns(value) == [raised |-> NoneV, value |-> value]
Raises(e) == [raised |-> e, value |-> NoneV]

\* does the call reach client.send_message
ToolSends(connections, agent_name) == agent_name \in DOMAIN connections

\* variant: only the send is inside the try, a decoding failure is raised
ToolResultUncaughtDecode(connections, agent_name, response) ==
    IF agent_name \notin DOMAIN connections
    THEN Returns(ErrorDict("Agent " \o agent_name \o " not found."))
    ELSE IF response.kind = "raise"
         THEN Returns(ErrorDict("Failed to send message to agent " \o agent_name \o ": "
                                \o ExcStr(response.exc)))
         ELSE IF DecodeError(response) # NoneV
              THEN Raises(DecodeError(response))
              ELSE Returns(List(PartTexts(response.artifacts.v[Len(response.artifacts.v)].parts)))

\* how a call of send_agent_message ends: the value it returns, or the exception it raises
ToolResult(connections, agent_name, response) ==
    IF agent_name \notin DOMAIN connections
    THEN Returns(ErrorDict("Agent " \o agent_name \o " not found."))
    ELSE IF DecodeError(response) # NoneV
         THEN Returns(ErrorDict("Failed to send message to agent " \o agent_name \o ": "
                                \o ExcStr(DecodeError(response))))
         ELSE Returns(List(PartTexts(response.artifacts.v[Len(response.artifacts.v)].parts)))

\* the message_id the tool reads from its RunnableConfig
ConfigMessageId(mid) == IF mid = Absent THEN Str("default") ELSE mid

\* get_response_from_agent(message, history) up to the first event of the agent
GetResponseStart ==
    /\ program = "host_agent"
    /\ pc = "ready"
    /\ uuids < MaxUserMessages
    /\ uuids' = uuids + 1
    /\ message_id' = Uuid4Hex(uuids + 1)
    /\ caller' = "get_response_from_agent"
    /\ content' = ""
    /\ tool_content' = ""
    /\ emitted' = <<>>
    /\ yielded' = <<>>
    /\ pc' = "responding"
    /\ UNCHANGED <<program, raised, weatherVars,
                   remote_agent_addresses, resolutions, remote_agent_connections, agents_info,
                   sent, last_call, host_events>>

\* the routing agent calls the tool while it answers the user message in progress; the
\* event stream reports the tool run in an event that carries no chunk
send_agent_message(agent_name, text, response) ==
    /\ program = "host_agent"
    /\ pc = "responding"
    /\ Len(sent) < MaxToolCalls
    /\ host_events < MaxEvents
    /\ host_events' = host_events + 1
    /\ emitted' = Append(emitted, [event |-> "event", data |-> [chunk |-> Absent]])
    /\ sent' = IF ToolSends(remote_agent_connections, agent_name)
               THEN Append(sent, [agent |-> agent_name,
                                  request |-> SendMessageRequest(ConfigMessageId(message_id), text)])
               ELSE sent
    /\ last_call' = [agent_name |-> agent_name, text |-> text, response |-> response,
                     sent_before |-> Len(sent), sent_after |-> Len(sent'),
                     result |-> ToolResult(remote_agent_connections, agent_name, response)]
    /\ UNCHANGED <<program, pc, caller, yielded, raised, weatherVars,
                   remote_agent_addresses, resolutions, remote_agent_connections, agents_info,
                   uuids, message_id, content, tool_content>>

(* ---------- get_response_from_agent: the loop over the agent's events ---------- *)
ChatMessage(text) == [role |-> "assistant", content |-> text]
ErrorMessage ==
    ChatMessage("An error occurred while processing your request. Please check the server logs for details.")

\* chunk.additional_kwargs: a dict with the keys it may hold
Kwargs(tool_calls, refusal) == [tool_calls |-> tool_calls, refusal |-> refusal]
ToolCall(id, name, arguments) ==
    [id |-> id, function |-> [name |-> name, arguments |-> arguments]]
HostChunk(cls, kwargs, c) == [cls |-> cls, additional_kwargs |-> kwargs, content |-> c]

\* event['data'] of the events the routing agent can emit
HostEvents ==
    {[chunk |-> Absent],
     [chunk |-> HostChunk("ToolMessage", Kwargs(Absent, Absent), Str("72F"))],
     [chunk |-> HostChunk("AIMessageChunk", Kwargs(Absent, Absent), Str("Hi"))],
     [chunk |-> HostChunk("AIMessageChunk", Kwargs(Absent, Absent), List(<<TextPart("Hi")>>))],
     [chunk |-> HostChunk("AIMessageChunk",
                          Kwargs(List(<<ToolCall(Str("call_1"), Str("send_agent_message"), Str(""))>>),
                                 Absent),
                          Str(""))],
     [chunk |-> HostChunk("AIMessageChunk",
                          Kwargs(List(<<ToolCall(NoneV, NoneV, Str("{agent_name"))>>), Absent),
                          Str(""))],
     [chunk |-> HostChunk("AIMessageChunk", Kwargs(Absent, Str("no")), Str(""))],
     [chunk |-> HostChunk("AIMessageChunk", Kwargs(List(<<>>), Absent), Str(""))]}

\* bool(additional_kwargs)
KwargsTruthy(kwargs) == kwargs.tool_calls # Absent \/ kwargs.refusal # Absent

\* the exception the loop body raises on data, NoneV when it raises none
ChunkError(data) ==
    IF data.chunk = Absent \/ data.chunk.cls # "AIMessageChunk" THEN NoneV
    ELSE IF KwargsTruthy(data.chunk.additional_kwargs)
         THEN IF data.chunk.additional_kwargs.tool_calls = Absent
              THEN Exc("TypeError", "'NoneType' object is not subscriptable")
              ELSE IF Len(data.chunk.additional_kwargs.tool_calls.v) = 0
                   THEN Exc("IndexError", "list index out of range")
                   ELSE NoneV
         ELSE IF data.chunk.content.t # "str"
              THEN Exc("TypeError", "can only concatenate str (not \"list\") to str")
              ELSE NoneV

\* the text one tool-call chunk adds to tool_content
ToolCallText(tool_call) ==
    IF Truthy(tool_call.id)
    THEN "\n\n**Tool Call: " \o Format(tool_call.function.name) \o "**\n"
    ELSE Format(tool_call.function.arguments)

\* the loop body on data that raises nothing: the new accumulators and what is yielded
ChunkStep(c, tc, data) ==
    IF data.chunk = Absent \/ data.chunk.cls # "AIMessageChunk"
    THEN [content |-> c, tool_content |-> tc, yields |-> <<>>]
    ELSE IF KwargsTruthy(data.chunk.additional_kwargs)
         THEN LET calls == data.chunk.additional_kwargs.tool_calls.v
                  text == tc \o ToolCallText(calls[Len(calls)])
              IN  [content |-> c, tool_content |-> text, yields |-> <<ChatMessage(text)>>]
         ELSE [content |-> c \o data.chunk.content.v, tool_content |-> tc,
               yields |-> <<ChatMessage(c \o data.chunk.content.v)>>]

\* variant: the handler catches KeyError only, any other exception reaches the caller
ExceptClauseKeyErrorOnly(e) ==
    IF e.cls = "KeyError"
    THEN [yields |-> <<ErrorMessage>>, raised |-> NoneV]
    ELSE [yields |-> <<>>, raised |-> e]

\* the `except Exception` clause: what is yielded and what reaches the caller
ExceptClause(e) == [yields |-> <<ErrorMessage>>, raised |-> NoneV]

\* the routing agent emits one event
HostStreamEvent(data) ==
    /\ program = "host_agent"
    /\ pc = "responding"
    /\ host_events < MaxEvents
    /\ host_events' = host_events + 1
    /\ emitted' = Append(emitted, [event |-> "event", data |-> data])
    /\ IF ChunkError(data) # NoneV
       THEN /\ yielded' = yielded \o ExceptClause(ChunkError(data)).yields
            /\ raised' = ExceptClause(ChunkError(data)).raised
            /\ pc' = "ready"
            /\ UNCHANGED <<content, tool_content>>
       ELSE /\ content' = ChunkStep(content, tool_content, data).content
            /\ tool_content' = ChunkStep(content, tool_content, data).tool_content
            /\ yielded' = yielded \o ChunkStep(content, tool_content, data).yields
            /\ UNCHANGED <<pc, raised>>
    /\ UNCHANGED <<program, caller, weatherVars, remote_agent_addresses, resolutions,
                   remote_agent_connections, agents_info, uuids, message_id, sent, last_call>>

\* astream_events of the routing agent raises
HostStreamRaise(e) ==
    /\ program = "host_agent"
    /\ pc = "responding"
    /\ emitted' = Append(emitted, [event |-> "raise", data |-> e])
    /\ yielded' = yielded \o ExceptClause(e).yields
    /\ raised' = ExceptClause(e).raised
    /\ pc' = "ready"
    /\ UNCHANGED <<program, caller, weatherVars, hostVars>>

\* the event stream of the routing agent ends: get_response_from_agent returns
GetResponseEnd ==
    /\ program = "host_agent"
    /\ pc = "responding"
    /\ pc' = "ready"
    /\ emitted' = Append(emitted, [event |-> "end", data |-> NoneV])
    /\ UNCHANGED <<program, caller, yielded, raised, weatherVars, hostVars>>

HostNext ==
    \/ RouterAgentInit(MainAddresses)
    \/ \E outcomes \in [1..Len(remote_agent_addresses) -> ResolveOutcomes] :
           _async_init_components(outcomes)
    \/ GetResponseStart
    \/ \E agent_name \in AgentNames, response \in SendOutcomes :
           send_agent_message(agent_name, "weather in Hanoi?", response)
    \/ \E data \in HostEvents : HostStreamEvent(data)
    \/ \E e \in Exceptions : HostStreamRaise(e)
    \/ GetResponseEnd

Next == WeatherNext \/ CurrencyNext \/ HostNext

Spec == Init /\ [][Next]_vars

(* ====================== properties ====================== *)
Last(seq) == seq[Len(seq)]
EnvelopeFields == {"is_task_complete", "require_user_input", "content"}
IsEnvelope(v) ==
    /\ DOMAIN v = EnvelopeFields
    /\ v.is_task_complete \in BOOLEAN
    /\ v.require_user_input \in BOOLEAN
ErrorEnvelope(text) ==
    [is_task_complete |-> TRUE, require_user_input |-> FALSE, content |-> Str(text)]
StreamCall == program = "weather_agent" /\ caller \in {"astream", "execute"}
AinvokeDone == program = "weather_agent" /\ caller = "ainvoke" /\ pc = "done"
StreamDone == StreamCall /\ pc = "done"

\* C1: every value ainvoke returned and every value astream or stream yielded is an
\* envelope with exactly the fields is_task_complete, require_user_input and content,
\* the two flags being booleans.
C1_EnvelopeShape ==
    program \in {"weather_agent", "langgraph"} =>
        /\ \A i \in 1..Len(yielded) : IsEnvelope(yielded[i])
        /\ AinvokeDone => IsEnvelope(returned)

\* a finished CurrencyAgent.stream that yielded an interim and a fallback final envelope
C1_Witness ==
    /\ program = "langgraph"
    /\ pc = "done"
    /\ Len(yielded) = 2
    /\ Last(yielded).content = UnableToProcess.content

\* C2 as stated: whenever the runnable raised (in ainvoke, astream_events or get_state)
\* the result is the error envelope with the prefixed error message, and nothing escapes.
C2_Original ==
    /\ AinvokeDone /\ (emitted[1].run.raises \/ emitted[1].state.raises) =>
          /\ raised = NoneV
          /\ returned = ErrorEnvelope("Error processing query: " \o
                 ExcStr(IF emitted[1].run.raises THEN emitted[1].run.exc ELSE emitted[1].state.exc))
    /\ StreamDone /\ Last(emitted).event = "raise" =>
          /\ raised = NoneV
          /\ Last(yielded) = ErrorEnvelope("Streaming error: " \o ExcStr(Last(emitted).data))
    /\ StreamDone /\ Last(emitted).event = "end" /\ Last(emitted).data.raises =>
          /\ raised = NoneV
          /\ Last(yielded) = ErrorEnvelope("Streaming error: " \o ExcStr(Last(emitted).data.exc))

\* C2 amended: a raise of ainvoke / astream_events gives the error envelope with the
\* prefixed message; a raise of get_state gives the error envelope 'Could not retrieve
\* agent state'; in every case no exception reaches the caller.
C2_ErrorsBecomeEnvelopes ==
    /\ AinvokeDone /\ emitted[1].run.raises =>
          /\ raised = NoneV
          /\ returned = ErrorEnvelope("Error processing query: " \o ExcStr(emitted[1].run.exc))
    /\ AinvokeDone /\ ~emitted[1].run.raises /\ emitted[1].state.raises =>
          /\ raised = NoneV
          /\ returned = ErrorEnvelope("Could not retrieve agent state")
    /\ StreamDone /\ Last(emitted).event = "raise" =>
          /\ raised = NoneV
          /\ Last(yielded) = ErrorEnvelope("Streaming error: " \o ExcStr(Last(emitted).data))
    /\ StreamDone /\ Last(emitted).event = "end" /\ Last(emitted).data.raises =>
          /\ raised = NoneV
          /\ Last(yielded) = ErrorEnvelope("Could not retrieve agent state")

\* astream ended on a raise of astream_events after it had yielded an interim envelope
C2_Witness ==
    /\ program = "weather_agent"
    /\ caller = "astream"
    /\ pc = "done"
    /\ Last(emitted).event = "raise"
    /\ Len(yielded) = 2
    /\ Last(yielded).content = Str("Streaming error: boom")

\* the envelope C3 expects for one framework event, NoneV for none
C3_Expected(chunk) ==
    IF chunk.event = "on_tool_start"
    THEN [is_task_complete |-> FALSE, require_user_input |-> FALSE,
          content |-> Str("Using tool: "
                          \o (IF chunk.data.name = Absent THEN "a tool" ELSE chunk.data.name.v)
                          \o "...")]
    ELSE IF /\ chunk.event = "on_chat_model_stream"
            /\ chunk.data.chunk # Absent
            /\ chunk.data.chunk.cls = "AIMessageChunk"
            /\ chunk.data.chunk.content \notin {Str(""), List(<<>>)}
         THEN [is_task_complete |-> FALSE, require_user_input |-> FALSE,
               content |-> chunk.data.chunk.content]
         ELSE NoneV

RECURSIVE C3_ExpectedSeq(_, _)
C3_ExpectedSeq(chunks, n) ==
    IF n = 0 THEN <<>>
    ELSE IF C3_Expected(chunks[n]) = NoneV
         THEN C3_ExpectedSeq(chunks, n - 1)
         ELSE Append(C3_ExpectedSeq(chunks, n - 1), C3_Expected(chunks[n]))

\* C3: the envelopes astream got from _process_stream_chunk are exactly, in order, those
\* of the on_tool_start events and of the on_chat_model_stream events carrying an AI
\* message chunk with non-empty content; every other event gives nothing; both flags false.
C3_StreamFilter ==
    /\ StreamCall /\ pc = "streaming" => yielded = C3_ExpectedSeq(emitted, Len(emitted))
    /\ StreamDone =>
          SubSeq(yielded, 1, Len(yielded) - 1) = C3_ExpectedSeq(emitted, Len(emitted) - 1)

\* two events were filtered: a tool start that was reported and an event that was dropped
C3_Witness ==
    /\ StreamCall
    /\ pc = "streaming"
    /\ Len(emitted) = 2
    /\ emitted[1].event = "on_tool_start"
    /\ emitted[2].event = "on_chat_model_stream"
    /\ Len(yielded) = 1
    /\ yielded[1].content = Str("Using tool: get_forecast...")

\* the final state handed to _extract_response and the envelope it produced
FinalState == IF caller = "ainvoke" THEN emitted[1].state ELSE Last(emitted).data
FinalEnvelope == IF caller = "ainvoke" THEN returned ELSE Last(yielded)
Extracted ==
    \/ AinvokeDone /\ ~emitted[1].run.raises /\ ~emitted[1].state.raises
    \/ StreamDone /\ Last(emitted).event = "end" /\ ~Last(emitted).data.raises

\* C4: a state holding a ResponseFormat with status s and message m gives the envelope
\* (s = completed, s = input_required, m); a state with no values gives the error
\* envelope 'Agent state is unavailable'.
C4_ExtractResponse ==
    Extracted =>
        LET values == FinalState.values
        IN  /\ values \in {NoneV, EmptyValues} =>
                  FinalEnvelope = ErrorEnvelope("Agent state is unavailable")
            /\ /\ values \notin {NoneV, EmptyValues}
               /\ values.structured_response # Absent
               /\ values.structured_response.cls = "ResponseFormat"
               => FinalEnvelope =
                      [is_task_complete |-> values.structured_response.status = "completed",
                       require_user_input |-> values.structured_response.status = "input_required",
                       content |-> Str(values.structured_response.message)]

\* ainvoke extracted a structured response with status 'error'
C4_Witness ==
    /\ AinvokeDone
    /\ Extracted
    /\ FinalState.values \notin {NoneV, EmptyValues}
    /\ FinalState.values.structured_response = ResponseFormat("error", "Sunny")
    /\ returned.content = Str("Sunny")

\* C8: construction with a missing or empty tool list raises ValueError with no memory
\* and no runnable created; with a non-empty list it succeeds.
C8_ConstructorGuard ==
    program = "weather_agent" /\ pc # "new" =>
        IF arg_tools \in {NoneV, List(<<>>)}
        THEN /\ pc = "failed"
             /\ raised = Exc("ValueError", "No MCP tools provided to WeatherAgent")
             /\ memory = "unset"
             /\ agent_runnable = "unset"
             /\ executor = "unset"
        ELSE /\ pc # "failed"
             /\ mcp_tools = arg_tools
             /\ memory = "MemorySaver"
             /\ agent_runnable = "react_agent"

\* construction was refused for an empty list
C8_Witness ==
    /\ program = "weather_agent"
    /\ pc = "failed"
    /\ arg_tools = List(<<>>)
    /\ memory = "unset"

IsFinal(e) == "final" \in DOMAIN e /\ e.final

\* C9 as stated: a run of execute that returned normally enqueued a final status update
\* (completed or input_required) as its last event.
C9_Original ==
    program = "weather_agent" /\ caller = "execute" /\ pc = "done" =>
        /\ Len(queue) > 0
        /\ IsFinal(Last(queue))
        /\ Last(queue).state \in {"completed", "input_required"}

\* C10: within one run of execute at most one event has final = true, and it is the last.
C10_OneFinalEvent ==
    program = "weather_agent" /\ caller = "execute" =>
        \A i \in 1..Len(queue) : IsFinal(queue[i]) => i = Len(queue)

\* execute enqueued a new task, two working updates, the artifact and the final status
C10_Witness ==
    /\ program = "weather_agent"
    /\ caller = "execute"
    /\ pc = "done"
    /\ Len(queue) = 5
    /\ IsFinal(Last(queue))
    /\ ~IsFinal(queue[2])

HostReady == program = "host_agent" /\ pc \in {"ready", "responding"}

\* does the response make the send or the decoding of the response fail
C5_Fails(response) ==
    \/ response.kind \in {"raise", "error_response", "message"}
    \/ response.artifacts = NoneV
    \/ response.artifacts = List(<<>>)

C5_Details ==
    {ExcStr(e) : e \in Exceptions}
    \cup {"'JSONRPCErrorResponse' object has no attribute 'result'", "'artifacts'",
          "'NoneType' object is not subscriptable", "list index out of range"}

\* C5: send_agent_message never raises; an unregistered name gives 'Agent <name> not
\* found.' and no request is sent; a failed send or decoding gives 'Failed to send message
\* to agent <name>: ...'; otherwise the texts of the parts of the last artifact, in order.
C5_ToolResult ==
    HostReady /\ last_call # NoneV =>
        LET agent_name == last_call.agent_name
            response == last_call.response
            result == last_call.result
        IN  /\ result.raised = NoneV
            /\ IF agent_name \notin DOMAIN remote_agent_connections
               THEN /\ result.value = [t |-> "dict", error |-> "Agent " \o agent_name \o " not found."]
                    /\ last_call.sent_after = last_call.sent_before
               ELSE /\ last_call.sent_after = last_call.sent_before + 1
                    /\ Last(sent).agent = agent_name
                    /\ IF C5_Fails(response)
                       THEN \E detail \in C5_Details :
                                result.value =
                                    [t |-> "dict",
                                     error |-> "Failed to send message to agent "
                                               \o agent_name \o ": " \o detail]
                       ELSE LET parts == Last(response.artifacts.v).parts
                            IN  result.value =
                                    List([i \in 1..Len(parts) |->
                                            IF parts[i].text = Absent THEN NoneV ELSE parts[i].text])

\* a registered agent answered with a task that has no artifacts
C5_Witness ==
    /\ HostReady
    /\ last_call # NoneV
    /\ last_call.agent_name \in DOMAIN remote_agent_connections
    /\ last_call.response = SendResponse("task", Exc("", ""), List(<<>>))
    /\ last_call.result.value =
           ErrorDict("Failed to send message to agent " \o last_call.agent_name
                     \o ": list index out of range")

\* C6 as stated: any two requests sent by send_agent_message differ in messageId and id.
C6_Original ==
    program = "host_agent" =>
        \A i, j \in 1..Len(sent) :
            i # j => /\ sent[i].request.params.message.messageId
                            # sent[j].request.params.message.messageId
                     /\ sent[i].request.id # sent[j].request.id

\* greatest element of a non-empty set of indices
MaxOf(S) == CHOOSE j \in S : \A k \in S : k <= j

\* C7: after initialization the registry maps the card name of every resolved address to
\* a connection for the last address resolved under that name; failed addresses add no
\* entry and do not stop the initialization.
C7_Registry ==
    HostReady =>
        LET n == Len(remote_agent_addresses)
            Ok == {i \in 1..n : resolutions[i].ok}
            LastNamed(name) == MaxOf({i \in Ok : resolutions[i].card.name = name})
        IN  /\ Len(resolutions) = n
            /\ raised = NoneV
            /\ DOMAIN remote_agent_connections = {resolutions[i].card.name : i \in Ok}
            /\ \A i \in Ok :
                   LET name == resolutions[i].card.name
                   IN  /\ remote_agent_connections[name].agent_url
                              = remote_agent_addresses[LastNamed(name)]
                       /\ remote_agent_connections[name].agent_card
                              = resolutions[LastNamed(name)].card
            /\ \A a \in {remote_agent_addresses[i] : i \in 1..n} :
                   (\A i \in 1..n : remote_agent_addresses[i] = a => ~resolutions[i].ok)
                   => \A name \in DOMAIN remote_agent_connections :
                          remote_agent_connections[name].agent_url # a

\* the first address failed to resolve and the second one was registered
C7_Witness ==
    /\ program = "host_agent"
    /\ pc = "ready"
    /\ Len(remote_agent_addresses) = 2
    /\ ~resolutions[1].ok
    /\ resolutions[2].ok
    /\ DOMAIN remote_agent_connections = {"Weather Agent"}
    /\ remote_agent_connections["Weather Agent"].agent_url = remote_agent_addresses[2]

ExecuteCall == program = "weather_agent" /\ caller = "execute"
IsTaskEvent(e) == "t" \in DOMAIN e

\* the events C11 expects for one envelope
C11_Expected(ev) ==
    IF ev.is_task_complete
    THEN <<[kind |-> "artifact-update", append |-> FALSE, lastChunk |-> TRUE,
            contextId |-> task.contextId, taskId |-> task.id,
            artifact |-> [name |-> "current_result",
                          description |-> "Result of request to agent.",
                          text |-> ev.content]],
           [kind |-> "status-update", state |-> "completed", message |-> NoneV, final |-> TRUE,
            contextId |-> task.contextId, taskId |-> task.id]>>
    ELSE <<[kind |-> "status-update",
            state |-> IF ev.require_user_input THEN "input_required" ELSE "working",
            message |-> [role |-> "agent", text |-> ev.content,
                         contextId |-> task.contextId, taskId |-> task.id],
            final |-> ev.require_user_input,
            contextId |-> task.contextId, taskId |-> task.id]>>

RECURSIVE C11_ExpectedQueue(_)
C11_ExpectedQueue(n) ==
    IF n = 0 THEN <<>> ELSE C11_ExpectedQueue(n - 1) \o C11_Expected(yielded[n])

\* C11: after any task event, the queue is the translation, in stream order, of the
\* envelopes astream yielded: complete -> artifact update then final completed status;
\* input required -> final input_required status; otherwise -> non-final working status;
\* every event carries the id and the context id of the task of the run.
C11_Translation ==
    ExecuteCall /\ pc \in {"streaming", "done"} =>
        LET k == IF context.current_task = NoneV THEN 1 ELSE 0
        IN  /\ SubSeq(queue, k + 1, Len(queue)) = C11_ExpectedQueue(Len(yielded))
            /\ \A i \in (k + 1)..Len(queue) :
                   queue[i].taskId = task.id /\ queue[i].contextId = task.contextId

\* a working update, then the artifact and the completed status of an existing task
C11_Witness ==
    /\ ExecuteCall
    /\ pc = "done"
    /\ context.current_task # NoneV
    /\ Len(yielded) = 2
    /\ Len(queue) = 3
    /\ queue[1].state = "working"
    /\ queue[2].kind = "artifact-update"
    /\ queue[3].state = "completed"

\* C12: without a message execute raises 'No message provided', enqueues nothing and does
\* not start the agent; with a message and no current task the new task is the first
\* event and the only task event; with a current task no task event is enqueued and the
\* task of the run is that task.
C12_ExecuteStart ==
    ExecuteCall =>
        IF context.message = NoneV
        THEN /\ pc = "raised"
             /\ raised = Exc("Exception", "No message provided")
             /\ queue = <<>>
             /\ emitted = <<>>
             /\ yielded = <<>>
        ELSE /\ raised = NoneV
             /\ IF context.current_task = NoneV
                THEN /\ Len(queue) >= 1
                     /\ IsTaskEvent(queue[1])
                     /\ queue[1] = task
                     /\ \A i \in 2..Len(queue) : ~IsTaskEvent(queue[i])
                ELSE /\ task = context.current_task
                     /\ \A i \in 1..Len(queue) :
                            /\ ~IsTaskEvent(queue[i])
                            /\ queue[i].taskId = context.current_task.id
                            /\ queue[i].contextId = context.current_task.contextId

\* a run on an existing task finished with two events, none of them a task event
C12_Witness ==
    /\ ExecuteCall
    /\ pc = "done"
    /\ context.current_task = Task("task-1", "ctx-1")
    /\ Len(queue) = 2
    /\ queue[1].taskId = "task-1"

\* C13: a finished astream yielded one envelope per accepted framework event, in order and
\* with both flags false, followed by exactly one last envelope: the one extracted from
\* the final state, or the error envelope when astream_events raised.
C13_PartialsThenFinal ==
    /\ StreamCall /\ pc = "streaming" =>
           \A i \in 1..Len(yielded) :
               ~yielded[i].is_task_complete /\ ~yielded[i].require_user_input
    /\ StreamDone =>
           LET accepted == C3_ExpectedSeq(emitted, Len(emitted) - 1)
           IN  /\ Len(yielded) = Len(accepted) + 1
               /\ \A i \in 1..Len(accepted) :
                      /\ yielded[i] = accepted[i]
                      /\ ~yielded[i].is_task_complete
                      /\ ~yielded[i].require_user_input
               /\ Last(yielded) =
                      IF Last(emitted).event = "raise"
                      THEN ErrorEnvelope("Streaming error: " \o ExcStr(Last(emitted).data))
                      ELSE _extract_response(Last(emitted).data)

\* two partial envelopes were followed by the final envelope of a completed response
C13_Witness ==
    /\ StreamDone
    /\ caller = "astream"
    /\ Len(yielded) = 3
    /\ Last(emitted).event = "end"
    /\ ~yielded[2].is_task_complete
    /\ Last(yielded).is_task_complete

RECURSIVE C15_Texts(_, _)
\* the texts of the text parts among the first n parts
C15_Texts(parts, n) ==
    IF n = 0 THEN <<>>
    ELSE IF parts[n].type = "text"
         THEN Append(C15_Texts(parts, n - 1), parts[n].text)
         ELSE C15_Texts(parts, n - 1)

RECURSIVE C15_Joined(_, _)
\* the first n texts, a newline between neighbours
C15_Joined(texts, n) ==
    IF n = 0 THEN ""
    ELSE IF n = 1 THEN texts[1]
    ELSE C15_Joined(texts, n - 1) \o "\n" \o texts[n]

\* C15: with state values but no structured response the envelope comes from the last
\* message: an AI message with non-empty string content, or with list content holding a
\* text part, completes the task with that text (text parts joined by newlines);
\* every other case asks for input with the fixed 'unexpected response format' content.
C15_Fallback ==
    Extracted /\ ValuesTruthy(FinalState.values)
              /\ FinalState.values.structured_response = Absent =>
        LET ms == IF FinalState.values.messages = Absent
                  THEN <<>> ELSE FinalState.values.messages.v
            c == Last(ms).content
            ai == Len(ms) > 0 /\ Last(ms).cls = "AIMessage"
        IN  IF ai /\ c.t = "str" /\ c.v # ""
            THEN FinalEnvelope = [is_task_complete |-> TRUE, require_user_input |-> FALSE,
                                  content |-> c]
            ELSE IF ai /\ c.t = "list" /\ \E i \in 1..Len(c.v) : c.v[i].type = "text"
                 THEN FinalEnvelope =
                          [is_task_complete |-> TRUE, require_user_input |-> FALSE,
                           content |-> Str(C15_Joined(C15_Texts(c.v, Len(c.v)),
                                                      Len(C15_Texts(c.v, Len(c.v)))))]
                 ELSE FinalEnvelope =
                          [is_task_complete |-> FALSE, require_user_input |-> TRUE,
                           content |-> Str("Unable to process request due to unexpected response format. Please try again.")]

\* ainvoke fell back to the two text parts of the last AI message
C15_Witness ==
    /\ AinvokeDone
    /\ Extracted
    /\ ValuesTruthy(FinalState.values)
    /\ FinalState.values.structured_response = Absent
    /\ returned = [is_task_complete |-> TRUE, require_user_input |-> FALSE,
                   content |-> Str("Sunny\n72F")]

CurrencyCall == program = "langgraph" /\ caller = "stream"

\* what C14 says of a stream that ended on the final envelope of get_agent_response
C14_FinalOK ==
    LET sr == Last(emitted).structured_response
        structured == sr # Absent /\ sr.cls = "ResponseFormat"
        final == Last(yielded)
    IN  /\ Len(yielded) >= 1
        /\ final.is_task_complete # final.require_user_input
        /\ final.is_task_complete <=> (structured /\ sr.status = "completed")
        /\ structured => final.content = Str(sr.message)
        /\ ~structured =>
               final.content
                   = Str("We are unable to process your request at the moment. Please try again.")
        /\ \A i \in 1..(Len(yielded) - 1) :
               ~yielded[i].is_task_complete /\ ~yielded[i].require_user_input

HostCall == program = "host_agent" /\ caller = "get_response_from_agent"

\* entry is an event whose chunk is an AIMessageChunk
C16_IsAIChunk(entry) ==
    /\ entry.event = "event"
    /\ entry.data.chunk # Absent
    /\ entry.data.chunk.cls = "AIMessageChunk"

\* entry is a failure of the event stream, or an AIMessageChunk the loop body cannot
\* handle: non-empty additional_kwargs without a tool call, or no additional_kwargs and a
\* content that is not a string
C16_Fails(entry) ==
    \/ entry.event = "raise"
    \/ /\ C16_IsAIChunk(entry)
       /\ LET kwargs == entry.data.chunk.additional_kwargs
          IN  IF kwargs.tool_calls # Absent
              THEN kwargs.tool_calls.v = <<>>
              ELSE kwargs.refusal # Absent \/ entry.data.chunk.content.t # "str"

C16_AIChunks(n) == Cardinality({i \in 1..n : C16_IsAIChunk(emitted[i])})

\* C16: get_response_from_agent raises nothing to its caller; when the event stream or the
\* handling of a chunk fails, it yields one assistant message with the fixed error text,
\* after one message per AIMessageChunk handled before, and ends with that message; a run
\* without a failure yields no error message.
C16_ErrorMessage ==
    HostCall =>
        /\ raised = NoneV
        /\ \A i \in 1..Len(emitted) :
               IF C16_Fails(emitted[i])
               THEN /\ i = Len(emitted)
                    /\ pc = "ready"
                    /\ Len(yielded) = C16_AIChunks(i - 1) + 1
                    /\ Last(yielded) = ErrorMessage
                    /\ \A j \in 1..(Len(yielded) - 1) : yielded[j] # ErrorMessage
               ELSE /\ i = Len(emitted) => Len(yielded) = C16_AIChunks(i)
                    /\ i = Len(emitted) => \A j \in 1..Len(yielded) : yielded[j] # ErrorMessage

\* one chunk answered, then a chunk whose additional_kwargs holds a refusal and no
\* tool_calls: the error message is the second and last message
C16_Witness ==
    /\ HostCall
    /\ pc = "ready"
    /\ Len(emitted) = 2
    /\ emitted[1].data = [chunk |-> HostChunk("AIMessageChunk", Kwargs(Absent, Absent), Str("Hi"))]
    /\ emitted[2].data = [chunk |-> HostChunk("AIMessageChunk", Kwargs(Absent, Str("no")), Str(""))]
    /\ yielded = <<ChatMessage("Hi"), ErrorMessage>>
    /\ raised = NoneV

====
